---- MODULE Spec2Model ----
(***************************************************************************)
(* Model of the MCP parking-analysis server.                               *)
(*                                                                         *)
(* The repository holds two builds of the same server:                     *)
(*   src/mcp-server.js     nested-attribute handler, metadata, error flag  *)
(*   src/unnamed/part_000  flat-field handler                              *)
(* The variable `server` says which of the two files the process runs.     *)
(*                                                                         *)
(* TLA+ strings are ASCII: emoji and accented letters of the source's      *)
(* literals are transliterated ("[pin]", "transito").  JSON values are     *)
(* tagged records (JSV) so that `||`, `${...}` and `?.` keep their         *)
(* JavaScript meaning on "", 0, null and undefined.                        *)
(***************************************************************************)
EXTENDS Integers, Sequences, FiniteSets, TLC

VARIABLES
    server,      \* which source file the process was started from
    tools,       \* the registry: tool name -> handler
    pc,          \* per request: "idle", "awaiting" (suspended at the await), "done"
    toolName,    \* per request: req.params.toolName
    body,        \* per request: req.body
    invoked,     \* per request: the tool handlers invoked, in order
    local,       \* per request: the handler's closure (data, estacionamientos, prompt)
    sent,        \* per request: the chat-completion calls made, in order
    outcome,     \* per request: how its chat-completion call ended
    responses,   \* per request: the HTTP responses written, in order
    healthSeen,  \* body.tools of the last GET /health answer
    ejemploSeen, \* status of the last GET /ejemplo answer (0: none yet)
    gen          \* generated instance description (prompt specification only)

vars == <<server, tools, pc, toolName, body, invoked, local, sent, outcome, responses,
          healthSeen, ejemploSeen, gen>>

(***************************************************************************)
(* Bounds                                                                  *)
(***************************************************************************)
MaxReq == 2
MaxPos == 2

Req == 1..MaxReq

MAIN == "mcp-server.js"
LEGACY == "part_000"
Servers == {MAIN, LEGACY}

(***************************************************************************)
(* JavaScript / JSON values                                                *)
(***************************************************************************)
Str(s) == [t |-> "string", n |-> 0, s |-> s]
Num(n) == [t |-> "number", n |-> n, s |-> ""]
Undefined == [t |-> "undefined", n |-> 0, s |-> ""]
Null == [t |-> "null", n |-> 0, s |-> ""]

\* ToBoolean of a primitive
Truthy(v) ==
    CASE v.t = "string" -> v.s # ""
      [] v.t = "number" -> v.n # 0
      [] OTHER -> FALSE

\* a || d
OrElse(v, d) == IF Truthy(v) THEN v ELSE d

\* ${v} inside a template literal
ToStr(v) ==
    CASE v.t = "string" -> v.s
      [] v.t = "number" -> ToString(v.n)
      [] v.t = "null" -> "null"
      [] OTHER -> "undefined"

\* obj[key] on an object given as a function from its own keys
Get(obj, key) == IF key \in DOMAIN obj THEN obj[key] ELSE Undefined

\* s.includes(sub) for the strings of the model
Includes(s, sub) ==
    CASE sub = "PERMITIDO" -> s \in {"PERMITIDO ESTACIONAR", "PERMITIDO"}
      [] sub = "PROHIBIDO" -> s \in {"PROHIBIDO ESTACIONAR", "PROHIBIDO"}
      [] OTHER -> FALSE

RECURSIVE Join(_)
\* array.join('')
Join(ss) == IF ss = <<>> THEN "" ELSE Head(ss) \o Join(Tail(ss))

Map(Op(_, _), xs) == [i \in 1..Len(xs) |-> Op(xs[i], i)]

\* array.filter(p).length
RECURSIVE CountIf(_, _)
CountIf(P(_), xs) ==
    IF xs = <<>> THEN 0
    ELSE (IF P(Head(xs)) THEN 1 ELSE 0) + CountIf(P, Tail(xs))

(***************************************************************************)
(* Request payloads                                                        *)
(***************************************************************************)
PropKeys == {"nombre", "distancia", "domicilio", "tarifa", "capacidad",
             "disponibles", "calle", "altura", "permiso", "horario", "lado"}

\* the own properties of a JSON object; a key it lacks reads as undefined
Props(p) == [k \in PropKeys |-> IF k \in DOMAIN p THEN p[k] ELSE Undefined]

Pair(id, v) == [nombreId |-> id, valor |-> v]

\* est with est.contenido.contenido = pairs
NestedInst(pairs, p) ==
    [kind |-> "object", contenido |-> "list", pairs |-> pairs, props |-> Props(p)]

\* est without est.contenido
FlatInst(p) ==
    [kind |-> "object", contenido |-> "absent", pairs |-> <<>>, props |-> Props(p)]

\* a JSON null in the instancias array
NullInst ==
    [kind |-> "null", contenido |-> "absent", pairs |-> <<>>, props |-> Props([nombre |-> Undefined])]

\* the instance of GET /ejemplo
EjemploInst ==
    NestedInst(<<Pair("calle", Str("ECHAGUE, PEDRO")),
                 Pair("altura", Str("1301-1400")),
                 Pair("permiso", Str("PERMITIDO ESTACIONAR")),
                 Pair("horario", Str("24 HORAS")),
                 Pair("lado", Str("derecho"))>>,
               [nombre |-> Str("Permitido estacionar 24 horas"),
                distancia |-> Str("4.85")])

\* the same logical values as EjemploInst, as fields directly on the instance,
\* with the vendor fields read by part_000
EjemploFlat ==
    FlatInst([nombre |-> Str("Permitido estacionar 24 horas"),
              domicilio |-> Str("ECHAGUE, PEDRO 1350"),
              capacidad |-> Num(40),
              calle |-> Str("ECHAGUE, PEDRO"),
              altura |-> Str("1301-1400"),
              permiso |-> Str("PERMITIDO ESTACIONAR"),
              horario |-> Str("24 HORAS"),
              lado |-> Str("derecho"),
              distancia |-> Str("4.85")])

ProhibidoInst ==
    NestedInst(<<Pair("calle", Str("YATAY")),
                 Pair("permiso", Str("PROHIBIDO ESTACIONAR")),
                 Pair("horario", Str("7 A 21"))>>,
               [distancia |-> Str("12.3")])

\* a nested instance with an empty attribute list and no distancia
BareInst == NestedInst(<<>>, [nombre |-> Undefined])

\* a nested instance whose permiso is the JSON number 0
NumPermisoInst ==
    NestedInst(<<Pair("calle", Str("YATAY")), Pair("permiso", Num(0))>>,
               [distancia |-> Str("4.85")])

\* req.body.  input: "absent" | "object".  data: "absent" | "null" | "object".  instancias: "absent" | "null" | "object" | "array".
Body(input, data, instancias, items, total, totalFull) ==
    [input |-> input, data |-> data, instancias |-> instancias, items |-> items,
     total |-> total, totalFull |-> totalFull]

Data(instancias, items, total, totalFull) ==
    Body("object", "object", instancias, items, total, totalFull)

NoInput == Body("absent", "absent", "absent", <<>>, Undefined, Undefined)
NoData == Body("object", "absent", "absent", <<>>, Undefined, Undefined)
NullData == Body("object", "null", "absent", <<>>, Undefined, Undefined)

InvalidBodies == {NoInput, NoData, NullData}

EmptyBodies ==
    { Data("absent", <<>>, Undefined, Undefined),
      Data("null", <<>>, Num(3), Num(1)),
      Data("array", <<>>, Num(1), Num(2)) }

NestedBodies ==
    { Data("array", <<EjemploInst>>, Num(1), Num(1)),
      Data("array", <<BareInst, ProhibidoInst>>, Num(2), Num(1)),
      Data("array", <<NumPermisoInst>>, Undefined, Undefined) }

FlatBodies == { Data("array", <<EjemploFlat>>, Num(1), Num(1)) }

MalformedBodies ==
    { Data("array", <<NullInst>>, Num(1), Num(1)),
      Data("object", <<>>, Num(1), Num(1)) }

Bodies == InvalidBodies \cup EmptyBodies \cup NestedBodies \cup FlatBodies
            \cup MalformedBodies

ToolNames == {"analizar-estacionamiento", "unknown-tool"}

(***************************************************************************)
(* tools['analizar-estacionamiento'].handler: the part before the await    *)
(***************************************************************************)
NoSpotsText(srv) ==
    IF srv = MAIN
    THEN "[no-entry] No se encontraron estacionamientos disponibles en la zona."
    ELSE "No se encontraron estacionamientos disponibles en la zona."

TextBlock(text) == [type |-> "text", text |-> text]

\* variant of NoInstancias: data.instancias.length === 0 without the falsy test
NoInstancias_LengthOnly(b) ==
    b.data = "object" /\ b.instancias = "array" /\ Len(b.items) = 0

\* !data.instancias || data.instancias.length === 0
NoInstancias(b) ==
    \/ b.data # "object"
    \/ b.instancias \in {"absent", "null"}
    \/ b.instancias = "array" /\ Len(b.items) = 0

RECURSIVE Reduce_FirstWins(_, _)
\* variant of Reduce: a nombreId already folded is not overwritten
Reduce_FirstWins(pairs, acc) ==
    IF pairs = <<>> THEN acc
    ELSE LET item == Head(pairs)
         IN Reduce_FirstWins(Tail(pairs),
                   [k \in DOMAIN acc \cup {item.nombreId} |->
                       IF k \in DOMAIN acc THEN acc[k] ELSE item.valor])

RECURSIVE Reduce(_, _)
\* est.contenido.contenido.reduce((acc, item) => { acc[item.nombreId] = item.valor; ... }, acc)
Reduce(pairs, acc) ==
    IF pairs = <<>> THEN acc
    ELSE LET item == Head(pairs)
         IN Reduce(Tail(pairs),
                   [k \in DOMAIN acc \cup {item.nombreId} |->
                       IF k = item.nombreId THEN item.valor ELSE acc[k]])

EmptyObject == [k \in {} |-> Undefined]

\* the TypeError, if any, raised by the callback of data.instancias.map in mcp-server.js
EstFault(est) ==
    CASE est.kind = "null" -> "Cannot read properties of null (reading 'contenido')"
      [] est.contenido = "absent" -> "Cannot read properties of undefined (reading 'contenido')"
      [] est.contenido = "noList" -> "Cannot read properties of undefined (reading 'reduce')"
      [] OTHER -> ""

\* { ...est, detalles: contenido }
Detallar(est, i) ==
    [kind |-> est.kind, contenido |-> est.contenido, pairs |-> est.pairs,
     props |-> est.props, detalles |-> Reduce(est.pairs, EmptyObject)]

\* the template literal returned by the callback of estacionamientos.map
BloqueTexto(i, calle, altura, lado, permiso, horario, distancia) ==
    "\n[pin] " \o ToString(i) \o ". " \o ToStr(calle) \o " " \o ToStr(altura)
      \o " (" \o ToStr(lado) \o ")\n- Tipo: " \o ToStr(permiso)
      \o "\n- Horario: " \o ToStr(horario)
      \o "\n- Distancia: " \o ToStr(distancia) \o " metros\n"

\* the callback of estacionamientos.map in the prompt template of mcp-server.js
\* (i is the 1-based position, the source's i + 1)
Bloque(est, i) ==
    LET calle == OrElse(Get(est.detalles, "calle"), Str("Calle no especificada"))
        altura == OrElse(Get(est.detalles, "altura"), Str("S/N"))
        permiso == OrElse(Get(est.detalles, "permiso"), Str("Sin datos"))
        horario == OrElse(Get(est.detalles, "horario"), Str("Sin horario"))
        lado == OrElse(Get(est.detalles, "lado"), Str(""))
        distancia == OrElse(est.props["distancia"], Str("N/D"))
    IN BloqueTexto(i, calle, altura, lado, permiso, horario, distancia)

\* the prompt template of mcp-server.js, as the segments whose concatenation it is
PromptMain(b, estacionamientos) ==
    <<"Como experto en transito de CABA, analiza estos estacionamientos en formato claro y estructurado:\n\n**Datos generales:**\n- Total encontrados: "
        \o ToStr(b.total) \o "\n- Disponibles para estacionar: " \o ToStr(b.totalFull)
        \o "\n\n**Detalle por ubicacion:**\n">>
    \o Map(Bloque, estacionamientos)
    \o <<"\n\n**Formato requerido para la respuesta:**\n1. [P] RESUMEN: Breve resumen de disponibilidad\n2. [ok] UBICACIONES PERMITIDAS: Lista clara de calles y horarios donde se puede estacionar\n3. [no-entry] RESTRICCIONES: Zonas prohibidas o con limitaciones\n4. [idea] RECOMENDACION: Mejor opcion basada en distancia y disponibilidad\n5. [nota] OBSERVACIONES: Cualquier dato adicional relevante\n\n**Se conciso pero preciso, usando emojis para mejor legibilidad.**">>

\* the callback of data.instancias.map in the prompt template of part_000
BloqueLegacy(est, i) ==
    "\n" \o ToString(i) \o ". " \o ToStr(OrElse(est.props["nombre"], Str("Sin nombre")))
      \o "\n- Direccion: " \o ToStr(OrElse(est.props["domicilio"], Str("No especificada")))
      \o "\n- Tarifa: " \o ToStr(OrElse(est.props["tarifa"], Str("No especificada")))
      \o "\n- Capacidad: " \o ToStr(OrElse(est.props["capacidad"], Str("?")))
      \o "\n- Disponibles: " \o ToStr(OrElse(est.props["disponibles"], Str("?"))) \o "\n"

\* the prompt template of part_000
PromptLegacy(b) ==
    <<"Como experto en transito de CABA, analiza estos estacionamientos:\n- Total encontrados: "
        \o ToStr(b.total) \o "\n- Disponibles: " \o ToStr(b.totalFull)
        \o "\n\nDetalles por estacionamiento:\n">>
    \o Map(BloqueLegacy, b.items)
    \o <<"\n\nResponde con:\n1. RESUMEN: 1 linea con disponibilidad general\n2. RECOMENDACION: Estacionamiento mas conveniente\n3. ADVERTENCIAS: Si hay restricciones importantes\n4. DETALLES: Info adicional relevante\n5. CALLES: direcciones de calles donde esta permitido o prohibido">>

SystemContent(srv) ==
    IF srv = MAIN
    THEN "Eres un asistente especializado en movilidad urbana de Buenos Aires. Proporciona informacion clara y estructurada con emojis relevantes."
    ELSE "Eres un asistente especializado en movilidad urbana de Buenos Aires. Se conciso pero util."

\* the argument of openai.chat.completions.create
CreateArgs(srv, prompt) ==
    [model |-> "openai/gpt-3.5-turbo",
     messages |-> <<[role |-> "system", content |-> SystemContent(srv)],
                    [role |-> "user", content |-> Join(prompt)]>>,
     temperature |-> "0.3"]

\* what the handler's closure holds across the await
Closure(estacionamientos, prompt) ==
    [estacionamientos |-> estacionamientos, prompt |-> prompt]

NoClosure == Closure(<<>>, <<>>)

Return(result) == [k |-> "return", result |-> result, message |-> "", closure |-> NoClosure]
Throw(message) == [k |-> "throw", result |-> EmptyObject, message |-> message, closure |-> NoClosure]
Await(closure) == [k |-> "await", result |-> EmptyObject, message |-> "", closure |-> closure]

\* the first TypeError of data.instancias.map(...) in mcp-server.js ("" when none)
MapFault(b) ==
    IF b.instancias # "array" THEN "data.instancias.map is not a function"
    ELSE LET bad == {i \in 1..Len(b.items) : EstFault(b.items[i]) # ""}
         IN IF bad = {} THEN ""
            ELSE EstFault(b.items[CHOOSE i \in bad : \A j \in bad : i <= j])

\* the first TypeError of data.instancias.map(...) in part_000 ("" when none)
MapFaultLegacy(b) ==
    IF b.instancias # "array" THEN "data.instancias.map is not a function"
    ELSE IF \E i \in 1..Len(b.items) : b.items[i].kind = "null"
         THEN "Cannot read properties of null (reading 'nombre')"
         ELSE ""

\* mcp-server.js: the handler from its entry to the await
HandlerMain(b) ==
    IF NoInstancias(b) THEN Return([content |-> <<TextBlock(NoSpotsText(MAIN))>>])
    ELSE IF MapFault(b) # "" THEN Throw(MapFault(b))
    ELSE LET estacionamientos == Map(Detallar, b.items)
         IN Await(Closure(estacionamientos, PromptMain(b, estacionamientos)))

\* part_000: the handler from its entry to the await
HandlerLegacy(b) ==
    IF NoInstancias(b) THEN Return([content |-> <<TextBlock(NoSpotsText(LEGACY))>>])
    ELSE IF MapFaultLegacy(b) # "" THEN Throw(MapFaultLegacy(b))
    ELSE Await(Closure(<<>>, PromptLegacy(b)))

HandlerSync(srv, b) == IF srv = MAIN THEN HandlerMain(b) ELSE HandlerLegacy(b)

(***************************************************************************)
(* The chat-completion call and the handler after the await                *)
(***************************************************************************)
\* response.choices[0].message.content is `content`
Resolved(content) == [k |-> "resolve", text |-> content]
\* a response whose choices array is empty
NoChoices == [k |-> "nochoices", text |-> ""]
\* the call rejects with an Error whose message is `message`
Rejected(message) == [k |-> "reject", text |-> message]
Pending == [k |-> "pending", text |-> ""]

Resolutions == {Resolved("Analisis A"), Resolved("Analisis B"), NoChoices}
Rejections == {Rejected("Connection error.")}

\* e.detalles.permiso?.includes(sub) throws when permiso is neither nullish nor a string
PermisoFault(e) ==
    Get(e.detalles, "permiso").t \notin {"undefined", "null", "string"}

\* e => e.detalles.permiso?.includes(sub)
PermisoIncludes(e, sub) ==
    LET permiso == Get(e.detalles, "permiso")
    IN permiso.t = "string" /\ Includes(permiso.s, sub)

EsPermitido(e) == PermisoIncludes(e, "PERMITIDO")
EsProhibido(e) == PermisoIncludes(e, "PROHIBIDO")

\* what the try block throws ("" when it completes) in mcp-server.js
TryFault(o, closure) ==
    CASE o.k = "reject" -> o.text
      [] o.k = "nochoices" -> "Cannot read properties of undefined (reading 'message')"
      [] \E i \in 1..Len(closure.estacionamientos) :
            PermisoFault(closure.estacionamientos[i])
           -> "e.detalles.permiso?.includes is not a function"
      [] OTHER -> ""

\* what the try block throws ("" when it completes) in part_000
TryFaultLegacy(o) ==
    CASE o.k = "reject" -> o.text
      [] o.k = "nochoices" -> "Cannot read properties of undefined (reading 'message')"
      [] OTHER -> ""

\* the catch block of mcp-server.js
CatchMain(message) ==
    [content |-> <<TextBlock("[warning] Error al analizar los estacionamientos: " \o message)>>,
     error |-> TRUE]

\* the catch block of part_000
CatchLegacy(message) ==
    [content |-> <<TextBlock("[warning] Error al analizar: " \o message)>>]

\* mcp-server.js: the handler from the await to its return
ResumeMain(b, closure, o) ==
    IF TryFault(o, closure) # "" THEN CatchMain(TryFault(o, closure))
    ELSE [content |-> <<TextBlock(o.text)>>,
          metadata |->
            [totalEstacionamientos |-> b.total,
             estacionamientosPermitidos |-> CountIf(EsPermitido, closure.estacionamientos),
             estacionamientosProhibidos |-> CountIf(EsProhibido, closure.estacionamientos)]]

\* part_000: the handler from the await to its return
ResumeLegacy(o) ==
    IF TryFaultLegacy(o) # "" THEN CatchLegacy(TryFaultLegacy(o))
    ELSE [content |-> <<TextBlock(o.text)>>]

Resume(srv, b, closure, o) ==
    IF srv = MAIN THEN ResumeMain(b, closure, o) ELSE ResumeLegacy(o)

(***************************************************************************)
(* app.post("/mcp-tool/:toolName")                                         *)
(***************************************************************************)
Response(status, json) == [status |-> status, body |-> json]

\* variant of InvalidPayload: !input alone
InvalidPayload_InputOnly(b) == b.input = "absent"

\* !input || !input.data
InvalidPayload(b) == b.input = "absent" \/ b.data \in {"absent", "null"}

\* tools.has(name)
Has(tls, name) == \E i \in 1..Len(tls) : tls[i].key = name

\* Array.from(tools.keys())
Keys(tls) == [i \in 1..Len(tls) |-> tls[i].key]

\* tools.get(name).handler
HandlerOf(tls, name) == tls[CHOOSE i \in 1..Len(tls) : tls[i].key = name].handler

FormatoIncorrecto(srv) ==
    IF srv = MAIN
    THEN [error |-> "Formato incorrecto. Se espera { input: { data: {...} } }",
          ejemplo |-> [input |-> [data |-> [instancias |-> <<>>, total |-> 0, totalFull |-> 0]]]]
    ELSE [error |-> "Formato incorrecto. Se espera { input: { data: {...} } }"]

\* variant of NoEncontrada: the tool names are not listed
NoEncontrada_SinLista(tls) ==
    [error |-> "Herramienta no encontrada", herramientasDisponibles |-> <<>>]

NoEncontrada(tls) ==
    [error |-> "Herramienta no encontrada", herramientasDisponibles |-> Keys(tls)]

\* the catch block of the route (stack is left out: it is undefined unless
\* NODE_ENV is 'development')
ErrorInterno(message) ==
    [error |-> "Error interno al procesar la solicitud", detalle |-> message]

\* res.json({ success: true, ...result }) in mcp-server.js, res.json(result) in part_000
Ok(srv, result) ==
    Response(200, IF srv = MAIN THEN result @@ [success |-> TRUE] ELSE result)

\* variant of CreateCalls: a second attempt is issued with the first
CreateCalls_Retry(srv, prompt) == <<CreateArgs(srv, prompt), CreateArgs(srv, prompt)>>

\* the single attempt: await openai.chat.completions.create({...})
CreateCalls(srv, prompt) == <<CreateArgs(srv, prompt)>>

\* what the route does with a request before it answers or suspends:
\* the responses written, the handler invocations, the completion calls started
Effect(next, written, invocations, calls, closure) ==
    [pc |-> next, responses |-> written, invoked |-> invocations, sent |-> calls,
     closure |-> closure]

\* await tools.get(toolName).handler(input), up to the handler's own await
Invoke(srv, handler, b) ==
    LET h == HandlerSync(srv, b)
    IN CASE h.k = "return" ->
              Effect("done", <<Ok(srv, h.result)>>, <<handler>>, <<>>, NoClosure)
         [] h.k = "throw" ->
              Effect("done", <<Response(500, ErrorInterno(h.message))>>, <<handler>>,
                     <<>>, NoClosure)
         [] OTHER ->
              Effect("awaiting", <<>>, <<handler>>,
                     CreateCalls(srv, h.closure.prompt), h.closure)

\* variant of Dispatch: the 400 branch does not return, the route goes on
Dispatch_NoReturn(srv, tls, name, b) ==
    LET rest == IF ~Has(tls, name)
                THEN Effect("done", <<Response(404, NoEncontrada(tls))>>, <<>>, <<>>,
                            NoClosure)
                ELSE Invoke(srv, HandlerOf(tls, name), b)
    IN IF InvalidPayload(b)
       THEN Effect(rest.pc, <<Response(400, FormatoIncorrecto(srv))>> \o rest.responses,
                   rest.invoked, rest.sent, rest.closure)
       ELSE rest

\* the route handler from its entry to its first response or suspension
Dispatch(srv, tls, name, b) ==
    IF InvalidPayload(b)
    THEN Effect("done", <<Response(400, FormatoIncorrecto(srv))>>, <<>>, <<>>, NoClosure)
    ELSE IF ~Has(tls, name)
    THEN Effect("done", <<Response(404, NoEncontrada(tls))>>, <<>>, <<>>, NoClosure)
    ELSE Invoke(srv, HandlerOf(tls, name), b)

(***************************************************************************)
(* State machine                                                           *)
(***************************************************************************)
HANDLER == "analizar-estacionamiento.handler"

\* tools.set("analizar-estacionamiento", { handler })
Registered == <<[key |-> "analizar-estacionamiento", handler |-> HANDLER]>>

NoGen == [attrs |-> <<>>, dup |-> "", distancia |-> "", rev |-> FALSE, pos |-> 0]

Init ==
    /\ server \in Servers
    /\ tools = Registered
    /\ pc = [r \in Req |-> "idle"]
    /\ toolName = [r \in Req |-> ""]
    /\ body = [r \in Req |-> NoInput]
    /\ local = [r \in Req |-> NoClosure]
    /\ invoked = [r \in Req |-> <<>>]
    /\ sent = [r \in Req |-> <<>>]
    /\ outcome = [r \in Req |-> Pending]
    /\ responses = [r \in Req |-> <<>>]
    /\ healthSeen = <<>>
    /\ ejemploSeen = 0
    /\ gen = NoGen

\* the per-request effect of POST /mcp-tool/:toolName with body b
PostCore(r, name, b) ==
    /\ pc[r] = "idle"
    /\ LET d == Dispatch(server, tools, name, b)
       IN /\ pc' = [pc EXCEPT ![r] = d.pc]
          /\ responses' = [responses EXCEPT ![r] = @ \o d.responses]
          /\ invoked' = [invoked EXCEPT ![r] = @ \o d.invoked]
          /\ sent' = [sent EXCEPT ![r] = @ \o d.sent]
          /\ local' = [local EXCEPT ![r] = d.closure]
    /\ toolName' = [toolName EXCEPT ![r] = name]
    /\ body' = [body EXCEPT ![r] = b]
    /\ UNCHANGED outcome

\* variant of PostMcpTool: an unknown tool name is registered on the fly
PostMcpTool_Registers(r, name, b) ==
    /\ PostCore(r, name, b)
    /\ tools' = IF Has(tools, name) THEN tools
                ELSE Append(tools, [key |-> name, handler |-> HANDLER])
    /\ UNCHANGED <<server, healthSeen, ejemploSeen, gen>>

\* POST /mcp-tool/:toolName
PostMcpTool(r, name, b) ==
    /\ PostCore(r, name, b)
    /\ UNCHANGED <<server, tools, healthSeen, ejemploSeen, gen>>

\* variant of ClosureOf: the closure is one module-level variable, overwritten
\* by the latest suspended request
ClosureOf_Shared(r) ==
    local[CHOOSE q \in Req : pc[q] = "awaiting" /\ \A p \in Req : pc[p] = "awaiting" => p <= q]

\* the closure a suspended handler resumes with
ClosureOf(r) == local[r]

\* the awaited chat-completion call of request r settles as o; the handler
\* returns and the route answers
Settle(r, o) ==
    /\ pc[r] = "awaiting"
    /\ pc' = [pc EXCEPT ![r] = "done"]
    /\ outcome' = [outcome EXCEPT ![r] = o]
    /\ responses' = [responses EXCEPT ![r] =
                        Append(@, Ok(server, Resume(server, body[r], ClosureOf(r), o)))]
    /\ local' = [local EXCEPT ![r] = NoClosure]
    /\ UNCHANGED <<server, tools, toolName, body, invoked, sent, healthSeen,
                   ejemploSeen, gen>>

CompletionResolves(r, o) == o \in Resolutions /\ Settle(r, o)

CompletionRejects(r, o) == o \in Rejections /\ Settle(r, o)

\* GET /health
GetHealth ==
    /\ healthSeen' = Keys(tools)
    /\ UNCHANGED <<server, tools, pc, toolName, body, local, invoked, sent, outcome,
                   responses, ejemploSeen, gen>>

\* GET /ejemplo: a route of mcp-server.js only; part_000 has no such route and
\* Express answers 404
GetEjemplo ==
    /\ ejemploSeen' = IF server = MAIN THEN 200 ELSE 404
    /\ UNCHANGED <<server, tools, pc, toolName, body, local, invoked, sent, outcome,
                   responses, healthSeen, gen>>

Next ==
    \/ \E r \in Req, name \in ToolNames, b \in Bodies : PostMcpTool(r, name, b)
    \/ \E r \in Req, o \in Resolutions : CompletionResolves(r, o)
    \/ \E r \in Req, o \in Rejections : CompletionRejects(r, o)
    \/ GetHealth
    \/ GetEjemplo

Spec == Init /\ [][Next]_vars

\* the POST route and the settling of its awaited calls; the GET routes read
\* tools and write none of the request state
NextPost ==
    \/ \E r \in Req, name \in ToolNames, b \in Bodies : PostMcpTool(r, name, b)
    \/ \E r \in Req, o \in Resolutions : CompletionResolves(r, o)
    \/ \E r \in Req, o \in Rejections : CompletionRejects(r, o)

\* the chat-completion call of every suspended request settles, and the event
\* loop then runs the handler's continuation
FairSpec ==
    /\ Init
    /\ [][NextPost]_vars
    /\ \A r \in Req :
         WF_vars((\E o \in Resolutions : CompletionResolves(r, o))
                 \/ (\E o \in Rejections : CompletionRejects(r, o)))

(***************************************************************************)
(* Prompt specification: one request whose payload holds a generated       *)
(* nested-variant instance, handled by mcp-server.js                       *)
(***************************************************************************)
AttrIds == <<"calle", "altura", "permiso", "horario", "lado">>
AttrSet == {AttrIds[i] : i \in 1..Len(AttrIds)}

\* the value a generated instance supplies for an attribute id
Valor(id) ==
    CASE id = "calle" -> "YATAY"
      [] id = "altura" -> "201-300"
      [] id = "permiso" -> "PROHIBIDO ESTACIONAR"
      [] id = "horario" -> "7 A 21"
      [] OTHER -> "izquierdo"

\* gen.attrs[id]: "absent" (no pair), "empty" (valor ""), "value" (valor Valor(id))
\* gen.dup: an id given twice, first with the valor "viejo" ("" for none)
\* gen.rev: the pairs come in reverse order
\* gen.pos: the position of the generated instance in instancias
Gens ==
    { g \in [attrs : [AttrSet -> {"absent", "empty", "value"}],
             dup : AttrSet \cup {""},
             distancia : {"absent", "empty", "value"},
             rev : BOOLEAN,
             pos : 1..MaxPos] :
        g.dup # "" => g.attrs[g.dup] # "absent" }

RECURSIVE GenPairsFrom(_, _)
GenPairsFrom(g, i) ==
    IF i > Len(AttrIds) THEN <<>>
    ELSE LET id == AttrIds[i]
             here == CASE g.attrs[id] = "absent" -> <<>>
                       [] g.attrs[id] = "empty" -> <<Pair(id, Str(""))>>
                       [] OTHER -> <<Pair(id, Str(Valor(id)))>>
             rest == GenPairsFrom(g, i + 1)
         IN IF g.rev THEN rest \o here ELSE here \o rest

GenPairs(g) ==
    (IF g.dup = "" THEN <<>> ELSE <<Pair(g.dup, Str("viejo"))>>) \o GenPairsFrom(g, 1)

GenInst(g) ==
    NestedInst(GenPairs(g),
               [distancia |-> CASE g.distancia = "absent" -> Undefined
                                [] g.distancia = "empty" -> Str("")
                                [] OTHER -> Str("12.3")])

GenBody(g) ==
    Data("array", [i \in 1..MaxPos |-> IF i = g.pos THEN GenInst(g) ELSE EjemploInst],
         Num(MaxPos), Num(1))

InitPrompt ==
    /\ server = MAIN
    /\ tools = Registered
    /\ pc = [r \in Req |-> "idle"]
    /\ toolName = [r \in Req |-> ""]
    /\ body = [r \in Req |-> NoInput]
    /\ local = [r \in Req |-> NoClosure]
    /\ invoked = [r \in Req |-> <<>>]
    /\ sent = [r \in Req |-> <<>>]
    /\ outcome = [r \in Req |-> Pending]
    /\ responses = [r \in Req |-> <<>>]
    /\ healthSeen = <<>>
    /\ ejemploSeen = 0
    /\ gen \in Gens

\* POST /mcp-tool/analizar-estacionamiento with the generated payload
PostGenerated ==
    /\ PostCore(1, "analizar-estacionamiento", GenBody(gen))
    /\ UNCHANGED <<server, tools, healthSeen, ejemploSeen, gen>>

NextPrompt == PostGenerated

SpecPrompt == InitPrompt /\ [][NextPrompt]_vars

(***************************************************************************)
(* Properties                                                              *)
(***************************************************************************)
Received(r) == pc[r] # "idle"
Registry == {"analizar-estacionamiento"}
ToRegistered(r) == Received(r) /\ toolName[r] \in Registry

\* the body has input and a truthy input.data
HasData(b) == b.input = "object" /\ b.data = "object"

\* input.data.instancias is absent, null or an array of length 0
SinInstancias(b) ==
    HasData(b) /\ (b.instancias \in {"absent", "null"}
                   \/ (b.instancias = "array" /\ b.items = <<>>))

IsNested(est) == est.kind = "object" /\ est.contenido = "list"
IsFlat(est) == est.kind = "object" /\ est.contenido = "absent"

\* a non-empty instancias array
NonEmpty(b) == HasData(b) /\ b.instancias = "array" /\ b.items # <<>>

OneTextBlock(json) ==
    /\ "content" \in DOMAIN json
    /\ Len(json.content) = 1
    /\ json.content[1].type = "text"

\* C1: a request to the registered tool whose input.data.instancias is absent,
\* null or empty is answered once, with 200 and exactly one text block carrying
\* the fixed no-spots message, and no chat-completion call is made for it,
\* whatever total and totalFull are.
C1_NoSpotsShortCircuit ==
    \A r \in Req :
        ToRegistered(r) /\ SinInstancias(body[r]) =>
            /\ pc[r] = "done"
            /\ Len(responses[r]) = 1
            /\ responses[r][1].status = 200
            /\ responses[r][1].body.content = <<TextBlock(NoSpotsText(server))>>
            /\ sent[r] = <<>>

C1_Witness ==
    \E r, q \in Req :
        /\ ToRegistered(r) /\ body[r].instancias = "array" /\ body[r].items = <<>>
        /\ body[r].totalFull.n > body[r].total.n
        /\ ToRegistered(q) /\ body[q].instancias = "absent" /\ HasData(body[q])
        /\ pc[r] = "done" /\ pc[q] = "done"

\* C2: when the chat-completion call of a request rejects, the request is
\* answered with 200 (not 500), the result has error = true, and its single
\* text block embeds the error's message.
C2_ErrorFlagOnFailure ==
    \A r \in Req :
        pc[r] = "done" /\ outcome[r].k = "reject" =>
            /\ Len(responses[r]) = 1
            /\ responses[r][1].status = 200
            /\ OneTextBlock(responses[r][1].body)
            /\ responses[r][1].body.content[1].text \in
                 { "[warning] Error al analizar los estacionamientos: " \o outcome[r].text,
                   "[warning] Error al analizar: " \o outcome[r].text }
            /\ "error" \in DOMAIN responses[r][1].body
            /\ responses[r][1].body.error = TRUE

\* C3: a request whose body lacks input, or whose input.data is missing or
\* null, is answered 400 whatever its tool name; no handler is invoked and no
\* chat-completion call is made.
C3_InvalidPayload400 ==
    \A r \in Req :
        Received(r) /\ ~HasData(body[r]) =>
            /\ pc[r] = "done"
            /\ Len(responses[r]) = 1
            /\ responses[r][1].status = 400
            /\ invoked[r] = <<>>
            /\ sent[r] = <<>>

C3_Witness ==
    \E r, q \in Req :
        /\ pc[r] = "done" /\ body[r].input = "absent" /\ toolName[r] \notin Registry
        /\ pc[q] = "done" /\ body[q].input = "object" /\ body[q].data = "null"
        /\ toolName[q] \in Registry

\* C4: a request with a valid payload and a tool name that is no key of the
\* registry is answered 404 with herramientasDisponibles listing exactly the
\* registry's keys; no handler is invoked and no chat-completion call is made.
C4_UnknownTool404 ==
    \A r \in Req :
        Received(r) /\ HasData(body[r]) /\ toolName[r] \notin Registry =>
            /\ pc[r] = "done"
            /\ Len(responses[r]) = 1
            /\ responses[r][1].status = 404
            /\ "herramientasDisponibles" \in DOMAIN responses[r][1].body
            /\ LET names == responses[r][1].body.herramientasDisponibles
               IN {names[i] : i \in 1..Len(names)} = {tools[i].key : i \in 1..Len(tools)}
            /\ invoked[r] = <<>>
            /\ sent[r] = <<>>

C4_Witness ==
    \E r \in Req :
        /\ pc[r] = "done" /\ toolName[r] = "unknown-tool" /\ NonEmpty(body[r])
        /\ responses[r][1].body.herramientasDisponibles = <<"analizar-estacionamiento">>

\* the logical values of an instance as sent: the last valor of each id of a
\* nested instance, the field of the same name of a flat one
LogicalValue(est, id) ==
    IF IsNested(est)
    THEN LET at == {i \in 1..Len(est.pairs) : est.pairs[i].nombreId = id}
         IN IF at = {} THEN Undefined
            ELSE est.pairs[CHOOSE i \in at : \A j \in at : j <= i].valor
    ELSE est.props[id]

\* C5: every instance of a non-empty payload, nested or flat, is accepted and
\* normalized to the record of its logical values; the request does not end in
\* 500 and reaches the prompt and the chat-completion call.
C5_VariantInvariant ==
    \A r \in Req :
        /\ ToRegistered(r) /\ NonEmpty(body[r])
        /\ \A i \in 1..Len(body[r].items) :
              IsNested(body[r].items[i]) \/ IsFlat(body[r].items[i])
        => /\ \A k \in 1..Len(responses[r]) : responses[r][k].status # 500
           /\ Len(sent[r]) = 1
           /\ pc[r] = "awaiting" =>
                /\ Len(local[r].estacionamientos) = Len(body[r].items)
                /\ \A i \in 1..Len(body[r].items) : \A id \in AttrSet :
                      Get(local[r].estacionamientos[i].detalles, id)
                        = LogicalValue(body[r].items[i], id)

\* instancias is a non-empty array of instances the running build can read
WellFormed(b) ==
    /\ NonEmpty(b)
    /\ \A i \in 1..Len(b.items) :
          IF server = MAIN THEN IsNested(b.items[i]) ELSE b.items[i].kind = "object"

\* the prompt of a well-formed payload
PromptOf(b) ==
    IF server = MAIN THEN PromptMain(b, Map(Detallar, b.items)) ELSE PromptLegacy(b)

\* C6: a request makes at most one chat-completion call; a request that passes
\* validation with a non-empty well-formed instancias makes exactly one,
\* whether the call succeeds or fails; and the call carries the complete
\* prompt built from that request's normalized payload.
C6_SingleAttempt ==
    \A r \in Req :
        /\ Len(sent[r]) <= 1
        /\ ToRegistered(r) /\ WellFormed(body[r]) => Len(sent[r]) = 1
        /\ sent[r] # <<>> =>
              /\ ToRegistered(r) /\ WellFormed(body[r])
              /\ sent[r][1].messages[2] = [role |-> "user", content |-> Join(PromptOf(body[r]))]

C6_Witness ==
    \E r, q \in Req :
        /\ pc[r] = "done" /\ outcome[r].k = "reject" /\ Len(sent[r]) = 1
        /\ pc[q] = "done" /\ outcome[q].k = "resolve" /\ Len(sent[q]) = 1

\* C7: in every reachable state the registry holds exactly the entry set at
\* start: the key "analizar-estacionamiento" mapped to its handler.
C7_RegistryReadOnly ==
    tools = <<[key |-> "analizar-estacionamiento",
               handler |-> "analizar-estacionamiento.handler"]>>

C7_Witness ==
    /\ healthSeen # <<>>
    /\ ejemploSeen # 0
    /\ \E r, q \in Req :
          /\ pc[r] = "done" /\ responses[r][1].status = 404
          /\ pc[q] = "done" /\ outcome[q].k # "pending"

\* the answer to a request as a function of its own tool name, payload and
\* completion outcome alone
OwnResponse(name, b, o) ==
    LET d == Dispatch(server, Registered, name, b)
    IN IF d.pc = "done" THEN d.responses
       ELSE <<Ok(server, Resume(server, b, d.closure, o))>>

\* C8: whatever the interleaving, the responses of a request are those
\* determined by its own tool name, its own payload and the outcome of its own
\* chat-completion call; while it is suspended nothing has been answered.
C8_NoInterference ==
    \A r \in Req :
        /\ pc[r] = "done" => responses[r] = OwnResponse(toolName[r], body[r], outcome[r])
        /\ pc[r] # "done" => responses[r] = <<>>

C8_Witness ==
    \E r, q \in Req :
        /\ r < q
        /\ pc[r] = "awaiting" /\ body[r].items = <<EjemploInst>>
        /\ pc[q] = "done" /\ outcome[q] = Resolved("Analisis B")
        /\ body[q].items = <<BareInst, ProhibidoInst>>
        /\ server = MAIN
        /\ responses[q][1].body.metadata.estacionamientosProhibidos = 1

\* the fixed default of the prompt for an attribute
Default(id) ==
    CASE id = "calle" -> "Calle no especificada"
      [] id = "altura" -> "S/N"
      [] id = "permiso" -> "Sin datos"
      [] id = "horario" -> "Sin horario"
      [] id = "lado" -> ""
      [] OTHER -> "N/D"

\* the value the generated instance supplies for an id it carries
Supplied(id) ==
    LET how == IF id = "distancia" THEN gen.distancia ELSE gen.attrs[id]
    IN IF how = "empty" THEN ""
       ELSE IF id = "distancia" THEN "12.3" ELSE Valor(id)

IsAbsent(id) == (IF id = "distancia" THEN gen.distancia ELSE gen.attrs[id]) = "absent"
IsEmpty(id) == (IF id = "distancia" THEN gen.distancia ELSE gen.attrs[id]) = "empty"

\* the block of the generated instance in the prompt held by the suspended handler
GenBlock == local[1].prompt[1 + gen.pos]

BlockShowing(Shown(_)) ==
    BloqueTexto(gen.pos, Str(Shown("calle")), Str(Shown("altura")), Str(Shown("lado")),
                Str(Shown("permiso")), Str(Shown("horario")), Str(Shown("distancia")))

ShownAsSupplied(id) == IF IsAbsent(id) THEN Default(id) ELSE Supplied(id)
ShownIfTruthy(id) == IF IsAbsent(id) \/ IsEmpty(id) THEN Default(id) ELSE Supplied(id)

\* C9 as stated: whatever ids the nested instance carries, the handler does
\* not fault and the instance's block shows the supplied value of every id
\* present and the default of every id absent.
C9_SuppliedOrDefault ==
    Received(1) =>
        /\ pc[1] = "awaiting"
        /\ responses[1] = <<>>
        /\ GenBlock = BlockShowing(ShownAsSupplied)

\* C9 amended: whatever ids the nested instance carries, the handler does not
\* fault and the instance's block shows, for every id, the last supplied value
\* when it is a non-empty string, and the default when the id is absent or its
\* value is empty.
C9_TruthyOrDefault ==
    Received(1) =>
        /\ pc[1] = "awaiting"
        /\ responses[1] = <<>>
        /\ Len(local[1].prompt) = MaxPos + 2
        /\ GenBlock = BlockShowing(ShownIfTruthy)

C9_Witness ==
    /\ pc[1] = "awaiting"
    /\ gen.pos > 1
    /\ gen.attrs["calle"] = "empty"
    /\ gen.attrs["altura"] = "absent"
    /\ gen.attrs["permiso"] = "value"
    /\ gen.dup = "permiso"
    /\ gen.distancia = "absent"
    /\ GenBlock = BloqueTexto(gen.pos, Str("Calle no especificada"), Str("S/N"),
                              Str(Supplied("lado")), Str("PROHIBIDO ESTACIONAR"),
                              Str(ShownIfTruthy("horario")), Str("N/D"))

\* the tool handler of request r threw before its await
HandlerThrew(r) ==
    /\ ToRegistered(r) /\ HasData(body[r])
    /\ ~SinInstancias(body[r]) /\ ~WellFormed(body[r])

AnsweredOnce(r) ==
    /\ Len(responses[r]) <= 1
    /\ Received(r) /\ pc[r] # "awaiting" => Len(responses[r]) = 1
    /\ \A k \in 1..Len(responses[r]) : responses[r][k].status \in {200, 400, 404, 500}
    /\ HandlerThrew(r) =>
          /\ responses[r][1].status = 500
          /\ "detalle" \in DOMAIN responses[r][1].body
          /\ responses[r][1].body.detalle # ""

\* C10: every request gets at most one response, with status 200, 400, 404 or
\* 500; a request whose handler throws gets 500 with a detail message; and,
\* the chat-completion call settling, every received request is eventually
\* answered exactly once.
C10_ExactlyOneResponse ==
    /\ [](\A r \in Req : AnsweredOnce(r))
    /\ \A r \in Req : Received(r) ~> (pc[r] = "done" /\ Len(responses[r]) = 1)

C10_Witness ==
    \E r, q \in Req :
        /\ pc[r] = "done" /\ responses[r][1].status = 500
        /\ responses[r][1].body.detalle = "Cannot read properties of null (reading 'contenido')"
        /\ pc[q] = "done" /\ outcome[q].k = "resolve" /\ responses[q][1].status = 200

====
